---- MODULE Spec2Model ----
(***************************************************************************)
(* A model of pvc.data.GroupingSpec, pvc.data.GroupingLevelSpec,           *)
(* pvc.data.GroupingDimensionSpec and pvc.data.GroupingSpec.parse          *)
(* (src/src/pvc/data/GroupingSpec.js).                                     *)
(*                                                                         *)
(* JavaScript strings that the code takes apart (the grouping text) are    *)
(* sequences of characters, one string per character (a character that a  *)
(* TLA+ string cannot hold is written as its JavaScript escape); strings   *)
(* that the code only builds and compares (names, ids, labels, keys) are   *)
(* TLA+ strings.  Objects live                                             *)
(* in `heap`; a reference is an index into it, so reference equality of    *)
(* the program is equality of indices.                                     *)
(***************************************************************************)
EXTENDS Integers, Sequences, FiniteSets, TLC

VARIABLES
    heap,       \* the GroupingSpec instances built so far, by reference
    ret,        \* what the last call returned or threw
    call,       \* the last call: operation, receiver, arguments
    specText,   \* the argument handed to GroupingSpec.parse
    level,      \* a GroupingLevelSpec under compare/key
    a,          \* a datum
    b,          \* a datum
    out         \* results of compare(a, b), key(a), key(b)

vars == <<heap, ret, call, specText, level, a, b, out>>

-----------------------------------------------------------------------------
(* Bounds of the model.                                                    *)

MaxPieces == 4      \* a grouping text is made of at most this many pieces
MaxSize == 2        \* size of the levels handed to the GroupingSpec constructor
MaxHeap == 3        \* GroupingSpec instances alive in one behaviour

-----------------------------------------------------------------------------
(* JavaScript values.                                                      *)

\* null / undefined / an absent keyword argument
Null == "null"

NoRef == 0

\* JavaScript `x || d` on a string-or-null x
OrElse(x, d) == IF x = Null \/ x = "" THEN d ELSE x

\* a local `var`: Op applied to the value of v, evaluated once
With(v, Op(_)) == CHOOSE r \in {Op(x) : x \in {v}} : TRUE

RECURSIVE Join(_, _)
\* Array.prototype.join on an array of strings
Join(strs, sep) ==
    IF Len(strs) = 0 THEN ""
    ELSE IF Len(strs) = 1 THEN strs[1]
    ELSE strs[1] \o sep \o Join(Tail(strs), sep)

RECURSIVE Str(_)
\* the string with the given characters
Str(chars) == IF Len(chars) = 0 THEN "" ELSE Head(chars) \o Str(Tail(chars))

RECURSIVE Flatten(_)
\* def.query(...).selectMany: the concatenation of a sequence of sequences
Flatten(seqs) == IF Len(seqs) = 0 THEN <<>> ELSE Head(seqs) \o Flatten(Tail(seqs))

\* What a call produced: a reference, or the error it threw.
NoRet == [kind |-> "none", ref |-> NoRef, error |-> "", arg |-> "", origin |-> "", text |-> ""]

Ref(i) == [kind |-> "ref", ref |-> i, error |-> "", arg |-> "", origin |-> "", text |-> ""]

\* def.fail.argumentInvalid / def.fail.argumentRequired, thrown by `origin`
Fail(error, arg, origin, text) ==
    [kind |-> "error", ref |-> NoRef, error |-> error, arg |-> arg, origin |-> origin, text |-> text]

\* keyword arguments; an absent one is Null (reverse: FALSE, its default)
KeyArgs(mode, label, reverse) ==
    [flatteningMode |-> mode, flattenRootLabel |-> label, reverse |-> reverse]

NoKeyArgs == KeyArgs(Null, Null, FALSE)

-----------------------------------------------------------------------------
(* The collaborators the code is handed: a complex type resolving names to *)
(* dimension types, dimension types giving atom comparers, atoms giving    *)
(* their global key.                                                       *)

\* the names the complex type knows
TypeNames == {"x", "y"}

DimensionType(name) == [name |-> name]

ComplexType == [names |-> TypeNames]

\* type.dimensions(name): the dimension type, or the type's own error
ComplexType_dimensions(type, name) ==
    IF name \in type.names
    THEN [ok |-> TRUE, dimType |-> DimensionType(name), fail |-> NoRet]
    ELSE [ok |-> FALSE, dimType |-> DimensionType(""),
          fail |-> Fail("ArgumentInvalid", "name", "ComplexType.dimensions", name)]

\* atom.globalKey()
Atom_globalKey(atom) == atom.key

\* dimType.atomComparer(reverse), applied to two atoms
DimensionType_atomComparer(dimType, reverse, atomA, atomB) ==
    LET direct == IF atomA.value < atomB.value THEN -1
                  ELSE IF atomA.value > atomB.value THEN 1 ELSE 0
    IN IF reverse THEN -direct ELSE direct

-----------------------------------------------------------------------------
(* pvc.data.GroupingDimensionSpec                                          *)

GroupingDimensionSpec_init(dimType, reverse) ==
    [name |-> dimType.name,
     reverse |-> (reverse = TRUE),
     type |-> dimType,
     id |-> dimType.name \o ":" \o (IF reverse = TRUE THEN "0" ELSE "1")]

\* dimSpec.compareDatums(a, b)
compareDatums(dimSpec, datumA, datumB) ==
    DimensionType_atomComparer(dimSpec.type, dimSpec.reverse,
                               datumA.atoms[dimSpec.name], datumB.atoms[dimSpec.name])

-----------------------------------------------------------------------------
(* pvc.data.GroupingLevelSpec                                              *)

GroupingLevelSpec_init(dimSpecs) ==
    [dimensions |-> dimSpecs,
     id |-> Join([i \in 1..Len(dimSpecs) |-> dimSpecs[i].id], ","),
     depth |-> Len(dimSpecs)]

RECURSIVE compareFrom(_, _, _, _)
\* the loop of compare, from dimension i on
compareFrom(lvl, datumA, datumB, i) ==
    IF i > lvl.depth THEN 0
    ELSE LET result == compareDatums(lvl.dimensions[i], datumA, datumB)
         IN IF result # 0 THEN result ELSE compareFrom(lvl, datumA, datumB, i + 1)

\* level.compare(a, b)
compare(lvl, datumA, datumB) == compareFrom(lvl, datumA, datumB, 1)

\* level.key(datum)
key(lvl, datum) ==
    LET atoms == [i \in 1..lvl.depth |-> datum.atoms[lvl.dimensions[i].name]]
        keys == [i \in 1..lvl.depth |-> Atom_globalKey(atoms[i])]
    IN [key |-> Join(keys, ","), atoms |-> atoms]

-----------------------------------------------------------------------------
(* pvc.data.GroupingSpec                                                   *)

\* mutant: levels without dimensions are kept
retainedLevels_All(levelSpecs) == levelSpecs

\* the where(...) of the constructor: the levels that have a dimension
retainedLevels(levelSpecs) ==
    SelectSeq(levelSpecs, LAMBDA levelSpec : Len(levelSpec.dimensions) > 0)

\* new pvc.data.GroupingSpec(levelSpecs, complexType, keyArgs): the object,
\* or the error thrown.  The two lazily filled cache fields (_reverseGrouping,
\* _singleLevelGrouping[reverse]) start absent.
GroupingSpec_init(levelSpecs, complexType, keyArgs) ==
    LET levels == retainedLevels(levelSpecs)
        hasCompositeLevels == \E i \in 1..Len(levels) : Len(levels[i].dimensions) > 1
        depth == Len(levels)
        isSingleLevel == depth = 1
        flatteningMode == OrElse(keyArgs.flatteningMode, Null)
        flattenRootLabel == OrElse(keyArgs.flattenRootLabel, "")
    IN IF Len(levels) = 0
       THEN [ok |-> FALSE,
             fail |-> Fail("ArgumentInvalid", "levelSpecs", "GroupingSpec.init", ""),
             obj |-> Null]
       ELSE [ok |-> TRUE,
             fail |-> NoRet,
             obj |-> [type |-> complexType,
                      hasCompositeLevels |-> hasCompositeLevels,
                      levels |-> levels,
                      depth |-> depth,
                      isSingleLevel |-> isSingleLevel,
                      isSingleDimension |-> isSingleLevel /\ ~hasCompositeLevels,
                      firstDimension |-> IF depth > 0 /\ Len(levels[1].dimensions) > 0
                                         THEN levels[1].dimensions[1] ELSE Null,
                      flatteningMode |-> flatteningMode,
                      flattenRootLabel |-> flattenRootLabel,
                      id |-> OrElse(flatteningMode, "") \o "##" \o flattenRootLabel \o "##"
                             \o Join([i \in 1..Len(levels) |-> levels[i].id], "||"),
                      singleLevelGroupingCache |-> [r \in BOOLEAN |-> NoRef],
                      reverseGroupingCache |-> NoRef]]

\* mutant: the levels are walked last to first
dimensions_LastLevelFirst(grouping) ==
    Flatten([i \in 1..Len(grouping.levels) |->
                grouping.levels[Len(grouping.levels) + 1 - i].dimensions])

\* grouping.dimensions(): the dimension specs of all levels, in level order
dimensions(grouping) ==
    Flatten([i \in 1..Len(grouping.levels) |-> grouping.levels[i].dimensions])

\* mutant: the dimension specs are rebuilt with their order as it is
reversedLevelSpecs_SameOrder(grouping) ==
    [i \in 1..Len(grouping.levels) |->
        GroupingLevelSpec_init(
            [d \in 1..Len(grouping.levels[i].dimensions) |->
                GroupingDimensionSpec_init(grouping.levels[i].dimensions[d].type,
                                           grouping.levels[i].dimensions[d].reverse)])]

\* the level specs reversed() builds: each dimension with its order inverted
reversedLevelSpecs(grouping) ==
    [i \in 1..Len(grouping.levels) |->
        GroupingLevelSpec_init(
            [d \in 1..Len(grouping.levels[i].dimensions) |->
                GroupingDimensionSpec_init(grouping.levels[i].dimensions[d].type,
                                           ~grouping.levels[i].dimensions[d].reverse)])]

\* mutant: the grouping built is not kept in _reverseGrouping
reversed_NoCache(h, this) ==
    [heap |-> Append(h, GroupingSpec_init(reversedLevelSpecs(h[this]), h[this].type,
                            KeyArgs(h[this].flatteningMode, Null, FALSE)).obj),
     ret |-> Len(h) + 1]

\* this.reversed(): the heap afterwards and the reference returned
reversed(h, this) ==
    LET made == GroupingSpec_init(reversedLevelSpecs(h[this]), h[this].type,
                                  KeyArgs(h[this].flatteningMode, Null, FALSE))
        new == Len(h) + 1
    IN IF h[this].reverseGroupingCache # NoRef
       THEN [heap |-> h, ret |-> h[this].reverseGroupingCache]
       ELSE [heap |-> Append([h EXCEPT ![this].reverseGroupingCache = new], made.obj),
             ret |-> new]

\* this.singleLevelGrouping(keyArgs)
singleLevelGrouping(h, this, keyArgs) ==
    LET reverse == keyArgs.reverse = TRUE
        dims == dimensions(h[this])
        dimSpecs == [d \in 1..Len(dims) |->
            IF reverse
            THEN GroupingDimensionSpec_init(dims[d].type, ~dims[d].reverse)
            ELSE dims[d]]
        made == GroupingSpec_init(<<GroupingLevelSpec_init(dimSpecs)>>, h[this].type,
                                  KeyArgs(h[this].flatteningMode, Null, FALSE))
        new == Len(h) + 1
    IN IF h[this].isSingleLevel /\ ~reverse
       THEN [heap |-> h, ret |-> this]
       ELSE IF h[this].singleLevelGroupingCache[reverse] # NoRef
       THEN [heap |-> h, ret |-> h[this].singleLevelGroupingCache[reverse]]
       ELSE [heap |-> Append([h EXCEPT ![this].singleLevelGroupingCache[reverse] = new],
                             made.obj),
             ret |-> new]

\* this.ensure(keyArgs)
ensure(h, this, keyArgs) ==
    LET flatteningMode == keyArgs.flatteningMode
        asked == flatteningMode # Null /\ flatteningMode # ""
        flattenRootLabel == OrElse(keyArgs.flattenRootLabel, "")
        rebuild == /\ asked
                   /\ flatteningMode # "singleLevel"
                   /\ \/ h[this].flatteningMode # flatteningMode
                      \/ h[this].flattenRootLabel # flattenRootLabel
        made == GroupingSpec_init(h[this].levels, h[this].type,
                                  KeyArgs(flatteningMode, flattenRootLabel, FALSE))
        h1 == IF rebuild THEN Append(h, made.obj) ELSE h
        grouping == IF rebuild THEN Len(h) + 1 ELSE this
    IN IF asked /\ flatteningMode = "singleLevel"
       THEN singleLevelGrouping(h, this, keyArgs)
       ELSE IF keyArgs.reverse = TRUE
       THEN reversed(h1, grouping)
       ELSE [heap |-> h1, ret |-> grouping]

-----------------------------------------------------------------------------
(* pvc.data.GroupingSpec.parse and the grammar of a grouping text.         *)

\* A character that a TLA+ string cannot hold is written as its JavaScript
\* escape: "\\u00a0" stands for the one character U+00A0.

\* what . does not match: the line terminators LF, CR, LS, PS
IsLineTerminator(c) == c \in {"\n", "\r", "\\u2028", "\\u2029"}

\* what \s matches: TAB, VT, FF, SP, NBSP, BOM, the space separators
\* (Unicode Zs) and the line terminators
IsSpace(c) ==
    \/ c \in {"\t", "\\u000b", "\f", " ", "\\u00a0", "\\ufeff"}
    \/ c \in {"\\u1680", "\\u2000", "\\u2001", "\\u2002", "\\u2003", "\\u2004",
              "\\u2005", "\\u2006", "\\u2007", "\\u2008", "\\u2009", "\\u200a",
              "\\u202f", "\\u205f", "\\u3000"}
    \/ IsLineTerminator(c)

Min(S) == CHOOSE m \in S : \A n \in S : m <= n

Max(S) == CHOOSE m \in S : \A n \in S : m >= n

LowerCase ==
    [A |-> "a", B |-> "b", C |-> "c", D |-> "d", E |-> "e", F |-> "f", G |-> "g",
     H |-> "h", I |-> "i", J |-> "j", K |-> "k", L |-> "l", M |-> "m", N |-> "n",
     O |-> "o", P |-> "p", Q |-> "q", R |-> "r", S |-> "s", T |-> "t", U |-> "u",
     V |-> "v", W |-> "w", X |-> "x", Y |-> "y", Z |-> "z"]

\* String.prototype.toLowerCase
toLowerCase(chars) ==
    [i \in 1..Len(chars) |->
        IF chars[i] \in DOMAIN LowerCase THEN LowerCase[chars[i]] ELSE chars[i]]

Asc == <<"a", "s", "c">>

Desc == <<"d", "e", "s", "c">>

\* the characters text[i..j] are all white space
Spaces(text, i, j) == \A k \in i..j : IsSpace(text[k])

RECURSIVE split(_, _)
\* text.split(/\s*,\s*/) with sep = "," and text.split(/\s*\|\s*/) with
\* sep = "|": the leftmost match starts at the white space before the
\* first separator and runs over the white space after it
split(text, sep) ==
    LET seps == {i \in 1..Len(text) : text[i] = sep}
        at == Min(seps)
        from == Min({i \in 1..at : Spaces(text, i, at - 1)})
        to == Max({j \in at..Len(text) : Spaces(text, at + 1, j)})
    IN IF seps = {} THEN <<text>>
       ELSE <<SubSeq(text, 1, from - 1)>> \o split(SubSeq(text, to + 1, Len(text)), sep)

\* mutant: the order token is matched in lower case only
orderAfter_CaseSensitive(text, p) ==
    LET n == Len(text)
        marks == {q \in (p + 1)..n : ~IsSpace(text[q])}
        q == Min(marks)
        isToken(token) ==
            /\ q + Len(token) - 1 <= n
            /\ SubSeq(text, q, q + Len(token) - 1) = token
            /\ Spaces(text, q + Len(token), n)
    IN IF marks = {} \/ q = p + 1 THEN <<>>
       ELSE IF isToken(Asc) THEN Asc
       ELSE IF isToken(Desc) THEN Desc
       ELSE <<>>

\* (?:\s+(asc|desc))\s*$ matched, ignoring case, right after text[1..p]:
\* what group 2 captures, or the empty text when the group does not match
orderAfter(text, p) ==
    LET n == Len(text)
        marks == {q \in (p + 1)..n : ~IsSpace(text[q])}
        q == Min(marks)
        isToken(token) ==
            /\ q + Len(token) - 1 <= n
            /\ toLowerCase(SubSeq(text, q, q + Len(token) - 1)) = token
            /\ Spaces(text, q + Len(token), n)
    IN IF marks = {} \/ q = p + 1 THEN <<>>
       ELSE IF isToken(Asc) THEN SubSeq(text, q, q + Len(Asc) - 1)
       ELSE IF isToken(Desc) THEN SubSeq(text, q, q + Len(Desc) - 1)
       ELSE <<>>

\* mutant: the name may run over line breaks
groupSpec_matchDimSpec_DotAll(text) ==
    LET n == Len(text)
        names(w) == {m \in 1..(n - w) :
                        \/ orderAfter(text, w + m) # <<>>
                        \/ Spaces(text, w + m + 1, n)}
        leads == {w \in 0..n : Spaces(text, 1, w) /\ names(w) # {}}
        w == Max(leads)
        m == Min(names(w))
    IN IF leads = {}
       THEN [matched |-> FALSE, name |-> <<>>, order |-> <<>>]
       ELSE [matched |-> TRUE,
             name |-> SubSeq(text, w + 1, w + m),
             order |-> orderAfter(text, w + m)]

\* groupSpec_matchDimSpec.exec(text), /^\s*(.+?)(?:\s+(asc|desc))?\s*$/i,
\* as the backtracking matcher finds it: the longest leading white space
\* first, then the shortest name, then the order token if one fits.
\* name is group 1; order is (group 2 || '').
groupSpec_matchDimSpec(text) ==
    LET n == Len(text)
        names(w) == {m \in 1..(n - w) :
                        /\ \A i \in (w + 1)..(w + m) : ~IsLineTerminator(text[i])
                        /\ \/ orderAfter(text, w + m) # <<>>
                           \/ Spaces(text, w + m + 1, n)}
        leads == {w \in 0..n : Spaces(text, 1, w) /\ names(w) # {}}
        w == Max(leads)
        m == Min(names(w))
    IN IF leads = {}
       THEN [matched |-> FALSE, name |-> <<>>, order |-> <<>>]
       ELSE [matched |-> TRUE,
             name |-> SubSeq(text, w + 1, w + m),
             order |-> orderAfter(text, w + m)]

\* the callback of select in groupSpec_parseGroupingLevel: one dimension
\* fragment to its GroupingDimensionSpec, or the error thrown
groupSpec_parseDimSpec(dimSpecText, type) ==
    With(groupSpec_matchDimSpec(dimSpecText), LAMBDA match :
        IF ~match.matched
        THEN [ok |-> FALSE,
              fail |-> Fail("ArgumentInvalid", "groupLevelText",
                            "groupSpec_parseGroupingLevel", Str(dimSpecText)),
              dimSpec |-> Null]
        ELSE With(ComplexType_dimensions(type, Str(match.name)), LAMBDA found :
            IF ~found.ok
            THEN [ok |-> FALSE, fail |-> found.fail, dimSpec |-> Null]
            ELSE [ok |-> TRUE, fail |-> NoRet,
                  dimSpec |-> GroupingDimensionSpec_init(
                                  found.dimType, toLowerCase(match.order) = Desc)]))

RECURSIVE groupSpec_parseDimSpecs(_, _, _)
\* the select of groupSpec_parseGroupingLevel run over the fragments left,
\* after `done`: it stops at the first fragment that throws
groupSpec_parseDimSpecs(texts, type, done) ==
    IF Len(texts) = 0
    THEN [ok |-> TRUE, fail |-> NoRet, dimSpecs |-> done]
    ELSE With(groupSpec_parseDimSpec(Head(texts), type), LAMBDA first :
            IF ~first.ok
            THEN [ok |-> FALSE, fail |-> first.fail, dimSpecs |-> <<>>]
            ELSE With(Tail(texts), LAMBDA rest :
                 With(Append(done, first.dimSpec), LAMBDA sofar :
                    groupSpec_parseDimSpecs(rest, type, sofar))))

\* groupSpec_parseGroupingLevel(groupLevelText, type): the dimension specs
\* of one level, or the error of the first fragment that throws
groupSpec_parseGroupingLevel(groupLevelText, type) ==
    With(SelectSeq(split(groupLevelText, "|"), LAMBDA t : Len(t) > 0), LAMBDA texts :
        groupSpec_parseDimSpecs(texts, type, <<>>))

RECURSIVE parseLevels(_, _, _)
\* the select of parse run over the level texts left, after `done`: it
\* stops at the first level that throws
parseLevels(levels, type, done) ==
    IF Len(levels) = 0
    THEN [ok |-> TRUE, fail |-> NoRet, levelSpecs |-> done]
    ELSE With(Head(levels), LAMBDA levelText :
         With(groupSpec_parseGroupingLevel(levelText, type), LAMBDA first :
            IF ~first.ok
            THEN [ok |-> FALSE, fail |-> first.fail, levelSpecs |-> <<>>]
            ELSE With(Tail(levels), LAMBDA rest :
                 With(Append(done, GroupingLevelSpec_init(first.dimSpecs)), LAMBDA sofar :
                    parseLevels(rest, type, sofar)))))

\* a string argument and an array-of-strings argument
StringArg(chars) == [isArray |-> FALSE, val |-> chars]

ArrayArg(texts) == [isArray |-> TRUE, val |-> texts]

\* mutant: an empty string is split like any other
parse_NoRequired(h, text, type) ==
    With(IF text.isArray THEN text.val ELSE split(text.val, ","), LAMBDA levels :
    With(parseLevels(levels, type, <<>>), LAMBDA parsed :
        IF ~parsed.ok
        THEN [heap |-> h, ret |-> parsed.fail]
        ELSE With(GroupingSpec_init(parsed.levelSpecs, type, NoKeyArgs), LAMBDA made :
            IF ~made.ok
            THEN [heap |-> h, ret |-> made.fail]
            ELSE [heap |-> Append(h, made.obj), ret |-> Ref(Len(h) + 1)])))

\* pvc.data.GroupingSpec.parse(specText, type): the heap afterwards and the
\* reference returned or the error thrown.  The level and dimension queries
\* are lazy: they run inside the GroupingSpec constructor, level by level,
\* so the first fragment that throws, in text order, decides the error.
parse(h, text, type) ==
    IF ~text.isArray /\ Len(text.val) = 0
    THEN [heap |-> h, ret |-> Fail("ArgumentRequired", "groupingSpecText",
                                   "GroupingSpec.parse", "")]
    ELSE With(IF text.isArray THEN text.val ELSE split(text.val, ","), LAMBDA levels :
         With(parseLevels(levels, type, <<>>), LAMBDA parsed :
            IF ~parsed.ok
            THEN [heap |-> h, ret |-> parsed.fail]
            ELSE With(GroupingSpec_init(parsed.levelSpecs, type, NoKeyArgs), LAMBDA made :
                IF ~made.ok
                THEN [heap |-> h, ret |-> made.fail]
                ELSE [heap |-> Append(h, made.obj), ret |-> Ref(Len(h) + 1)])))

-----------------------------------------------------------------------------
(* Inputs.                                                                 *)

\* the pieces grouping texts are made of
Pieces ==
    {<<"x">>, <<"y">>, <<" ">>, <<"\n">>, <<",">>, <<"|">>,
     <<" ", "a", "s", "c">>, <<" ", "d", "e", "s", "c">>, <<" ", "D", "e", "S", "C">>}

RECURSIVE TextsOf(_)
\* the texts of at most n pieces
TextsOf(n) ==
    IF n = 0 THEN {<<>>}
    ELSE LET shorter == TextsOf(n - 1)
         IN shorter \cup {t \o p : t \in shorter, p \in Pieces}

\* the level texts of an array argument
LevelTexts == TextsOf(2) \cup {<<"x", "\n", "y">>, <<"x", " ", "d", "e", "s", "c", "|", "y">>}

\* texts with the other white space and line terminators of JavaScript
OtherSpaceTexts ==
    {<<"x", "\f", "d", "e", "s", "c">>,
     <<"x", "\\u00a0", "D", "E", "S", "C">>,
     <<"x", " ", "d", "e", "s", "c", "\f">>,
     <<"\\ufeff", "x", "\\u000b">>,
     <<"x", "\\u00a0", "|", "\\u00a0", "y">>,
     <<"x", "\f", ",", "\f", "y">>,
     <<"x", ",", "\\u2028", "y", "\t", "a", "s", "c">>,
     <<"x", "\\u2028", "y">>,
     <<"x", "\\u2029", "\\u3000", "a", "s", "c", "\r">>,
     <<"\\u2028">>,
     <<"x", "\\u1680", "y">>,
     <<"y", "\r", "x", " ", "a", "s", "c">>}

SpecTexts ==
    {StringArg(t) : t \in TextsOf(MaxPieces) \cup OtherSpaceTexts}
        \cup {ArrayArg(<<>>)}
        \cup {ArrayArg(<<t>>) : t \in LevelTexts \cup OtherSpaceTexts}
        \cup {ArrayArg(<<t, u>>) : t \in {<<>>, <<"x">>, <<" ">>}, u \in LevelTexts}

RECURSIVE SeqsOf(_, _)
\* the sequences of at most n elements of S
SeqsOf(S, n) ==
    IF n < 0 THEN {}
    ELSE IF n = 0 THEN {<<>>}
    ELSE LET shorter == SeqsOf(S, n - 1)
         IN shorter \cup {Append(q, e) : q \in shorter, e \in S}

NoLevel == GroupingLevelSpec_init(<<>>)

\* the dimension specs over the given names
DimSpecsOf(names) ==
    {GroupingDimensionSpec_init(DimensionType(n), r) : n \in names, r \in BOOLEAN}

\* the levels of n dimensions
LevelSpecsOf(names, n) ==
    {GroupingLevelSpec_init(dimSpecs) :
        dimSpecs \in SeqsOf(DimSpecsOf(names), n) \ SeqsOf(DimSpecsOf(names), n - 1)}

RECURSIVE LevelSpecsArgsOf(_, _)
\* what a caller hands to the constructor: the sequences of levels of size
\* n, where a level counts for its dimensions and an empty level for one
LevelSpecsArgsOf(names, n) ==
    IF n = 0 THEN {<<>>}
    ELSE UNION {{Append(levelSpecs, levelSpec) :
                    levelSpecs \in LevelSpecsArgsOf(names, n - k),
                    levelSpec \in LevelSpecsOf(names, k)
                                  \cup (IF k = 1 THEN {NoLevel} ELSE {})} :
                k \in 1..n}

LevelSpecsArgs == UNION {LevelSpecsArgsOf(TypeNames, n) : n \in 0..MaxSize}

\* the keyword arguments the first grouping is built with
NewKeyArgs == {KeyArgs("tree-pre", "All", FALSE)}

\* the grouping texts the first grouping is parsed from
RootTexts ==
    {<<>>, <<"|">>, <<"x">>, <<"z">>,
     <<"x", ",", "\\u00a0", "|", ",", "y", "\f", "D", "E", "S", "C">>,
     <<"y", "\\u2028", "d", "e", "s", "c", " ", "|", "x">>}

EnsureKeyArgs ==
    {KeyArgs(mode, label, reverse) :
        mode \in {Null, "singleLevel", "tree-pre"}, label \in {Null, "All"}, reverse \in BOOLEAN}

\* the atoms of a dimension: each value has its own global key
Atoms ==
    {[value |-> 1, key |-> "p"], [value |-> 2, key |-> "p,q"],
     [value |-> 3, key |-> "q"], [value |-> 4, key |-> "q,q"]}

Datums == {[atoms |-> f] : f \in [TypeNames -> Atoms]}

NoDatum == [atoms |-> [n \in TypeNames |-> [value |-> 0, key |-> ""]]]

\* a call: the operation, its receiver and its arguments
Call(op, this, keyArgs, levelSpecs) ==
    [op |-> op, this |-> this, keyArgs |-> keyArgs, levelSpecs |-> levelSpecs]

NoCall == Call("none", NoRef, NoKeyArgs, <<>>)

NoOut == [done |-> {}, compare |-> 0, keyA |-> "", keyB |-> ""]

-----------------------------------------------------------------------------
(* SpecParse: one call of GroupingSpec.parse on a grouping text.           *)

InitParse ==
    /\ specText \in SpecTexts
    /\ heap = <<>>
    /\ ret = NoRet
    /\ call = NoCall
    /\ level = NoLevel
    /\ a = NoDatum
    /\ b = NoDatum
    /\ out = NoOut

\* GroupingSpec.parse(specText, type)
Parse ==
    /\ call.op = "none"
    /\ LET r == parse(heap, specText, ComplexType)
       IN /\ heap' = r.heap
          /\ ret' = r.ret
    /\ call' = Call("parse", NoRef, NoKeyArgs, <<>>)
    /\ UNCHANGED <<specText, level, a, b, out>>

NextParse == Parse

SpecParse == InitParse /\ [][NextParse]_vars

-----------------------------------------------------------------------------
(* Spec: a GroupingSpec built by its constructor or by parse, and the      *)
(* groupings derived from it by singleLevelGrouping, reversed and ensure.  *)

Init ==
    /\ heap = <<>>
    /\ ret = NoRet
    /\ call = NoCall
    /\ specText = StringArg(<<>>)
    /\ level = NoLevel
    /\ a = NoDatum
    /\ b = NoDatum
    /\ out = NoOut

\* new pvc.data.GroupingSpec(levelSpecs, type, keyArgs)
New(levelSpecs, complexType, keyArgs) ==
    /\ LET made == GroupingSpec_init(levelSpecs, complexType, keyArgs)
       IN /\ heap' = IF made.ok THEN Append(heap, made.obj) ELSE heap
          /\ ret' = IF made.ok THEN Ref(Len(heap) + 1) ELSE made.fail
    /\ call' = Call("new", NoRef, keyArgs, levelSpecs)
    /\ UNCHANGED <<specText, level, a, b, out>>

\* heap[this].reversed()
Reversed(this) ==
    /\ LET r == reversed(heap, this)
       IN /\ Len(r.heap) <= MaxHeap
          /\ heap' = r.heap
          /\ ret' = Ref(r.ret)
    /\ call' = Call("reversed", this, NoKeyArgs, <<>>)
    /\ UNCHANGED <<specText, level, a, b, out>>

\* heap[this].singleLevelGrouping(keyArgs)
SingleLevelGrouping(this, keyArgs) ==
    /\ LET r == singleLevelGrouping(heap, this, keyArgs)
       IN /\ Len(r.heap) <= MaxHeap
          /\ heap' = r.heap
          /\ ret' = Ref(r.ret)
    /\ call' = Call("singleLevelGrouping", this, keyArgs, <<>>)
    /\ UNCHANGED <<specText, level, a, b, out>>

\* heap[this].ensure(keyArgs)
Ensure(this, keyArgs) ==
    /\ LET r == ensure(heap, this, keyArgs)
       IN /\ Len(r.heap) <= MaxHeap
          /\ heap' = r.heap
          /\ ret' = Ref(r.ret)
    /\ call' = Call("ensure", this, keyArgs, <<>>)
    /\ UNCHANGED <<specText, level, a, b, out>>

\* the grouping the behaviour is about is built first: by the constructor
NewRoot ==
    /\ call.op = "none"
    /\ \E levelSpecs \in LevelSpecsArgs, keyArgs \in NewKeyArgs :
          New(levelSpecs, ComplexType, keyArgs)

\* or by GroupingSpec.parse(specText, type)
ParseRoot ==
    /\ call.op = "none"
    /\ \E text \in RootTexts :
          LET r == parse(heap, StringArg(text), ComplexType)
          IN /\ heap' = r.heap
             /\ ret' = r.ret
             /\ specText' = StringArg(text)
    /\ call' = Call("parse", NoRef, NoKeyArgs, <<>>)
    /\ UNCHANGED <<level, a, b, out>>

Next ==
    \/ NewRoot
    \/ ParseRoot
    \/ \E this \in 1..Len(heap) : Reversed(this)
    \/ \E this \in 1..Len(heap), reverse \in BOOLEAN :
          SingleLevelGrouping(this, KeyArgs(Null, Null, reverse))
    \/ \E this \in 1..Len(heap) : Ensure(this, KeyArgs("tree-pre", "All", FALSE))

Spec == Init /\ [][Next]_vars

-----------------------------------------------------------------------------
(* SpecEnsure: a GroupingSpec and the groupings ensure derives from it.    *)

NextEnsure ==
    \/ NewRoot
    \/ \E this \in 1..Len(heap), keyArgs \in EnsureKeyArgs : Ensure(this, keyArgs)

SpecEnsure == Init /\ [][NextEnsure]_vars

-----------------------------------------------------------------------------
(* SpecId: two GroupingSpecs built independently, over a complex type that *)
(* also has a dimension whose name holds the characters ids are made of.   *)

IdNames == TypeNames \cup {"x:1,y"}

IdComplexType == [names |-> IdNames]

IdLevelSpecsArgs == UNION {LevelSpecsArgsOf(IdNames, n) : n \in 0..MaxSize}

IdKeyArgs == {NoKeyArgs, KeyArgs("tree-pre", "All", FALSE)}

NewPair ==
    /\ Len(heap) < 2
    /\ \E levelSpecs \in IdLevelSpecsArgs, keyArgs \in IdKeyArgs :
          New(levelSpecs, IdComplexType, keyArgs)

NextId == NewPair

SpecId == Init /\ [][NextId]_vars

-----------------------------------------------------------------------------
(* SpecLevel: compare and key of one GroupingLevelSpec on two datums.      *)

InitLevel ==
    /\ level \in UNION {LevelSpecsOf(TypeNames, n) : n \in 1..MaxSize}
    /\ a \in Datums
    /\ b \in Datums
    /\ out = NoOut
    /\ heap = <<>>
    /\ ret = NoRet
    /\ call = NoCall
    /\ specText = StringArg(<<>>)

\* level.compare(a, b)
Compare ==
    /\ "compare" \notin out.done
    /\ out' = [out EXCEPT !.done = @ \cup {"compare"}, !.compare = compare(level, a, b)]
    /\ UNCHANGED <<heap, ret, call, specText, level, a, b>>

\* level.key(a) and level.key(b)
Key ==
    /\ "key" \notin out.done
    /\ out' = [out EXCEPT !.done = @ \cup {"key"},
                          !.keyA = key(level, a).key,
                          !.keyB = key(level, b).key]
    /\ UNCHANGED <<heap, ret, call, specText, level, a, b>>

NextLevel == Compare \/ Key

SpecLevel == InitLevel /\ [][NextLevel]_vars

-----------------------------------------------------------------------------
(* What the claims speak of.                                               *)

\* the levels of a grouping as <<name, reverse>> pairs
Structure(grouping) ==
    [i \in 1..Len(grouping.levels) |->
        [d \in 1..Len(grouping.levels[i].dimensions) |->
            <<grouping.levels[i].dimensions[d].name,
              grouping.levels[i].dimensions[d].reverse>>]]

\* a structure with every order flag inverted iff `reverse`
Flipped(structure, reverse) ==
    [i \in 1..Len(structure) |->
        [d \in 1..Len(structure[i]) |->
            <<structure[i][d][1], structure[i][d][2] # reverse>>]]

RECURSIVE CutAt(_, _)
\* the text cut at every occurrence of the character sep
CutAt(text, sep) ==
    LET seps == {i \in 1..Len(text) : text[i] = sep}
    IN IF seps = {} THEN <<text>>
       ELSE <<SubSeq(text, 1, Min(seps) - 1)>>
                \o CutAt(SubSeq(text, Min(seps) + 1, Len(text)), sep)

\* the text without the white space around it
Trim(text) ==
    LET marks == {i \in 1..Len(text) : ~IsSpace(text[i])}
    IN IF marks = {} THEN <<>> ELSE SubSeq(text, Min(marks), Max(marks))

\* where the last word of a trimmed, non-empty text starts
LastWordAt(text) ==
    Min({i \in 1..Len(text) : \A k \in i..Len(text) : ~IsSpace(text[k])})

\* a dimension fragment read as <name>[ asc|desc]: the last word is the
\* order when it is asc or desc in any letter case and a name precedes it
ReadDimension(fragment) ==
    LET text == Trim(fragment)
        at == LastWordAt(text)
        last == toLowerCase(SubSeq(text, at, Len(text)))
    IN IF at > 1 /\ last \in {Asc, Desc}
       THEN <<Str(Trim(SubSeq(text, 1, at - 1))), last = Desc>>
       ELSE <<Str(text), FALSE>>

\* a level fragment read as its non-empty pipe-separated fragments
ReadLevel(fragment) ==
    LET parts == SelectSeq(CutAt(fragment, "|"), LAMBDA t : Trim(t) # <<>>)
    IN [d \in 1..Len(parts) |-> ReadDimension(parts[d])]

\* a grouping text read as the claim reads it: one level per
\* comma-separated fragment that holds a non-empty pipe-separated fragment
ReadText(text) ==
    LET parts == CutAt(text, ",")
    IN SelectSeq([i \in 1..Len(parts) |-> ReadLevel(parts[i])], LAMBDA l : Len(l) > 0)

\* the fragment has the form <name>[ asc|desc]: white space, a name that
\* runs over no line break, then an order token or nothing, white space
HasForm(text) ==
    \E i \in 1..Len(text) : \E j \in i..Len(text) :
        /\ Spaces(text, 1, i - 1)
        /\ \A k \in i..j : ~IsLineTerminator(text[k])
        /\ \/ Spaces(text, j + 1, Len(text))
           \/ \E k \in (j + 2)..Len(text) : \E token \in {Asc, Desc} :
                /\ Spaces(text, j + 1, k - 1)
                /\ k + Len(token) - 1 <= Len(text)
                /\ toLowerCase(SubSeq(text, k, k + Len(token) - 1)) = token
                /\ Spaces(text, k + Len(token), Len(text))

\* the text is one dimension fragment: it holds no comma and no pipe
OneFragment(text) == Len(text) > 0 /\ \A i \in 1..Len(text) : text[i] \notin {",", "|"}

\* a name followed by two order tokens, as in 'bogus name desc desc'
TwoOrderTokens(text) ==
    /\ OneFragment(text)
    /\ Trim(text) # <<>>
    /\ LET whole == Trim(text)
           at == LastWordAt(whole)
           rest == Trim(SubSeq(whole, 1, at - 1))
       IN /\ toLowerCase(SubSeq(whole, at, Len(whole))) \in {Asc, Desc}
          /\ rest # <<>>
          /\ LastWordAt(rest) > 1
          /\ toLowerCase(SubSeq(rest, LastWordAt(rest), Len(rest))) \in {Asc, Desc}

GrammarError(r) == r.kind = "error" /\ r.origin = "groupSpec_parseGroupingLevel"

LookupError(r) == r.kind = "error" /\ r.origin = "ComplexType.dimensions"

NoLevelsError == Fail("ArgumentInvalid", "levelSpecs", "GroupingSpec.init", "")

-----------------------------------------------------------------------------
(* C1 *)

\* C1, as stated: parse of an empty string, and of an empty array, fails
\* with ArgumentInvalid (no level remains) and returns no spec.
C1_Stated ==
    (call.op = "parse" /\ specText \in {StringArg(<<>>), ArrayArg(<<>>)})
        => (ret.kind = "error" /\ ret.error = "ArgumentInvalid")

\* C1, amended: parse of an empty array fails with the ArgumentInvalid of
\* the constructor (no level remains); parse of an empty string fails with
\* ArgumentRequired for groupingSpecText.  Neither returns a spec.
C1_EmptyText ==
    call.op = "parse" =>
        /\ specText = ArrayArg(<<>>) => (ret = NoLevelsError /\ heap = <<>>)
        /\ specText = StringArg(<<>>) =>
              /\ ret = Fail("ArgumentRequired", "groupingSpecText", "GroupingSpec.parse", "")
              /\ heap = <<>>

C1_Witness ==
    /\ call.op = "parse"
    /\ specText = StringArg(<<>>)
    /\ ret.error = "ArgumentRequired"

-----------------------------------------------------------------------------
(* C2 *)

\* C2, as stated: a fragment that is a name followed by two order tokens
\* fails with the ArgumentInvalid of the grammar match, naming the fragment.
C2_Stated ==
    (call.op = "parse" /\ ~specText.isArray /\ TwoOrderTokens(specText.val))
        => ret = Fail("ArgumentInvalid", "groupLevelText",
                      "groupSpec_parseGroupingLevel", Str(specText.val))

\* C2, amended: the grammar match raises ArgumentInvalid, naming the
\* fragment, exactly for a fragment that is not white space, a name without
\* line break, an optional order token, white space.  A fragment of that
\* form whose name the type does not know fails with the error of the
\* type's dimension lookup; a name followed by two order tokens on one line
\* is such a fragment, its name running up to and including the first of
\* the two tokens.
C2_Grammar ==
    call.op = "parse" =>
        /\ GrammarError(ret) =>
              /\ ret.error = "ArgumentInvalid"
              /\ ret.arg = "groupLevelText"
              /\ LET texts == IF specText.isArray
                              THEN {specText.val[i] : i \in 1..Len(specText.val)}
                              ELSE {specText.val}
                 IN \E text \in texts : \E i \in 1..Len(text) : \E j \in i..Len(text) :
                        /\ ~HasForm(SubSeq(text, i, j))
                        /\ ret.text = Str(SubSeq(text, i, j))
        /\ (~specText.isArray /\ OneFragment(specText.val)) =>
              /\ ~HasForm(specText.val) =>
                    ret = Fail("ArgumentInvalid", "groupLevelText",
                               "groupSpec_parseGroupingLevel", Str(specText.val))
              /\ HasForm(specText.val) => (ret.kind = "ref" \/ LookupError(ret))
        /\ (~specText.isArray /\ TwoOrderTokens(specText.val) /\ HasForm(specText.val)) =>
              LET whole == Trim(specText.val)
                  name == Str(Trim(SubSeq(whole, 1, LastWordAt(whole) - 1)))
              IN IF name \in TypeNames
                 THEN ret.kind = "ref"
                 ELSE LookupError(ret) /\ ret.text = name

C2_Witness ==
    /\ call.op = "parse"
    /\ ~specText.isArray
    /\ OneFragment(specText.val)
    /\ ~HasForm(specText.val)
    /\ Len(specText.val) > 1
    /\ GrammarError(ret)

-----------------------------------------------------------------------------
(* C3 *)

\* C3: parse of a text whose names all resolve returns a grouping with one
\* level per comma-separated fragment that holds a non-empty pipe-separated
\* fragment, one dimension per such fragment, in text order, reversed iff
\* its trailing order token is desc in any letter case; white space around
\* the fragments changes nothing.
C3_Grammar ==
    (call.op = "parse" /\ ~specText.isArray) =>
        LET read == ReadText(specText.val)
        IN /\ ret.kind = "ref" => Structure(heap[ret.ref]) = read
           /\ (/\ read # <<>>
               /\ \A i \in 1..Len(read) : \A d \in 1..Len(read[i]) :
                     read[i][d][1] \in TypeNames)
                 => ret.kind = "ref"

C3_Witness ==
    /\ call.op = "parse"
    /\ ~specText.isArray
    /\ ret.kind = "ref"
    /\ Len(heap[ret.ref].levels) = 2
    /\ heap[ret.ref].levels[1].dimensions[1].reverse
    /\ \E i \in 1..Len(specText.val) : specText.val[i] = "D"

-----------------------------------------------------------------------------
(* C4 *)

\* C4: a constructed grouping holds exactly the input levels that have a
\* dimension, in input order; depth = levels.length >= 1; isSingleLevel =
\* (depth = 1); hasCompositeLevels iff a level has more than one dimension;
\* isSingleDimension = isSingleLevel and not hasCompositeLevels.  With no
\* level retained the constructor fails with ArgumentInvalid and no object
\* is made.
C4_Construction ==
    /\ \A i \in 1..Len(heap) :
          /\ heap[i].depth = Len(heap[i].levels)
          /\ heap[i].depth >= 1
          /\ \A k \in 1..Len(heap[i].levels) : heap[i].levels[k].depth >= 1
          /\ heap[i].isSingleLevel = (heap[i].depth = 1)
          /\ heap[i].hasCompositeLevels
                = (\E k \in 1..Len(heap[i].levels) : heap[i].levels[k].depth > 1)
          /\ heap[i].isSingleDimension
                = (heap[i].isSingleLevel /\ ~heap[i].hasCompositeLevels)
    /\ call.op = "new" =>
          LET kept == SelectSeq(call.levelSpecs, LAMBDA l : l.depth >= 1)
          IN IF Len(kept) = 0
             THEN ret = NoLevelsError /\ heap = <<>>
             ELSE ret = Ref(1) /\ Len(heap) = 1 /\ heap[1].levels = kept

C4_Witness ==
    /\ call.op = "new"
    /\ ret.kind = "ref"
    /\ Len(call.levelSpecs) = 2
    /\ call.levelSpecs[1].depth = 0
    /\ heap[ret.ref].depth = 1
    /\ heap[ret.ref].isSingleDimension

-----------------------------------------------------------------------------
(* C5 *)

\* C5: ensure with a flatteningMode F other than 'singleLevel', a root
\* label L and a reverse flag R returns a grouping with mode F, label L,
\* the receiver's dimensions in the receiver's order, each order flag
\* inverted iff R; the receiver itself when it has F and L and R is false.
C5_Stated ==
    (/\ call.op = "ensure"
     /\ call.keyArgs.flatteningMode \notin {Null, "", "singleLevel"})
        => /\ ret.kind = "ref"
           /\ heap[ret.ref].flatteningMode = call.keyArgs.flatteningMode
           /\ heap[ret.ref].flattenRootLabel = OrElse(call.keyArgs.flattenRootLabel, "")
           /\ Structure(heap[ret.ref])
                = Flipped(Structure(heap[call.this]), call.keyArgs.reverse)
           /\ (/\ heap[call.this].flatteningMode = call.keyArgs.flatteningMode
               /\ heap[call.this].flattenRootLabel
                    = OrElse(call.keyArgs.flattenRootLabel, "")
               /\ ~call.keyArgs.reverse)
                 => ret.ref = call.this

-----------------------------------------------------------------------------
(* C6 *)

\* the global key of the atoms is a faithful equality witness
FaithfulKeys ==
    \A n \in TypeNames : \A r \in BOOLEAN : \A p \in Atoms : \A q \in Atoms :
        (Atom_globalKey(p) = Atom_globalKey(q))
            = (DimensionType_atomComparer(DimensionType(n), r, p, q) = 0)

\* C6: with faithful global keys, level.key(a).key = level.key(b).key if and
\* only if level.compare(a, b) = 0.
C6_Stated ==
    (FaithfulKeys /\ out.done = {"compare", "key"})
        => ((out.keyA = out.keyB) = (out.compare = 0))

-----------------------------------------------------------------------------
(* C7 *)

\* C7: g.reversed() has the levels and dimensions of g with every order
\* flag inverted; g.reversed().reversed() has those of g with the flags of
\* g, and each of its levels compares every pair of datums as that of g.
C7_Reversed ==
    call.op = "reversed" =>
        /\ ret.kind = "ref"
        /\ Structure(heap[ret.ref]) = Flipped(Structure(heap[call.this]), TRUE)
        /\ \A g \in 1..Len(heap) :
              heap[g].reverseGroupingCache = call.this =>
                  /\ Structure(heap[ret.ref]) = Structure(heap[g])
                  /\ \A i \in 1..Len(heap[g].levels) : \A p \in Datums : \A q \in Datums :
                        compare(heap[ret.ref].levels[i], p, q)
                            = compare(heap[g].levels[i], p, q)

C7_Witness ==
    /\ call.op = "reversed"
    /\ \E g \in 1..Len(heap) :
          /\ heap[g].reverseGroupingCache = call.this
          /\ ret.ref \notin {g, call.this}
          /\ heap[g].depth = 2
          /\ heap[g].levels[1].dimensions[1].reverse

-----------------------------------------------------------------------------
(* C8 *)

\* C8: two groupings with equal id have the same flatteningMode, the same
\* flattenRootLabel and, level by level, the same dimension names with the
\* same order flags.
C8_Stated ==
    \A i \in 1..Len(heap) : \A j \in 1..Len(heap) :
        heap[i].id = heap[j].id =>
            /\ heap[i].flatteningMode = heap[j].flatteningMode
            /\ heap[i].flattenRootLabel = heap[j].flattenRootLabel
            /\ Structure(heap[i]) = Structure(heap[j])

-----------------------------------------------------------------------------
(* C9 *)

\* C9: singleLevelGrouping without reverse on a single-level grouping
\* returns the receiver; otherwise it returns the instance held in the
\* receiver's cache slot of that reverse flag, and reversed() the instance
\* held in the receiver's reverse slot; a slot is filled by the first call
\* and, once filled, never replaced or cleared.
C9_Step ==
    /\ \A i \in 1..Len(heap) :
          /\ i <= Len(heap')
          /\ heap[i].reverseGroupingCache # NoRef
                => heap'[i].reverseGroupingCache = heap[i].reverseGroupingCache
          /\ \A r \in BOOLEAN :
                heap[i].singleLevelGroupingCache[r] # NoRef
                    => heap'[i].singleLevelGroupingCache[r]
                          = heap[i].singleLevelGroupingCache[r]
    /\ call'.op = "reversed" =>
          /\ ret'.kind = "ref"
          /\ heap'[call'.this].reverseGroupingCache = ret'.ref
          /\ heap[call'.this].reverseGroupingCache = NoRef
                => (ret'.ref = Len(heap) + 1 /\ Len(heap') = Len(heap) + 1)
          /\ heap[call'.this].reverseGroupingCache # NoRef => heap' = heap
    /\ call'.op = "singleLevelGrouping" =>
          /\ ret'.kind = "ref"
          /\ IF heap[call'.this].isSingleLevel /\ ~call'.keyArgs.reverse
             THEN ret'.ref = call'.this /\ heap' = heap
             ELSE /\ heap'[call'.this].singleLevelGroupingCache[call'.keyArgs.reverse]
                        = ret'.ref
                  /\ heap[call'.this].singleLevelGroupingCache[call'.keyArgs.reverse] = NoRef
                        => (ret'.ref = Len(heap) + 1 /\ Len(heap') = Len(heap) + 1)
                  /\ heap[call'.this].singleLevelGroupingCache[call'.keyArgs.reverse] # NoRef
                        => heap' = heap

C9_Cached == [][C9_Step]_vars

\* reversed() returned the instance an earlier call built
C9_Witness ==
    /\ call.op = "reversed"
    /\ call.this = 1
    /\ ret.ref = 2
    /\ Len(heap) = 3
    /\ heap[1].singleLevelGroupingCache[TRUE] = 3

-----------------------------------------------------------------------------
(* C10 *)

\* C10: when singleLevelGrouping does not return the receiver, its result
\* has depth 1, its one level holds every dimension of the receiver in
\* level order and then within-level order, each order flag inverted iff
\* reverse was asked; it has the receiver's flatteningMode and the empty
\* flattenRootLabel.
C10_Collapsed ==
    (/\ call.op = "singleLevelGrouping"
     /\ ~(heap[call.this].isSingleLevel /\ ~call.keyArgs.reverse))
        => /\ ret.kind = "ref"
           /\ heap[ret.ref].depth = 1
           /\ Structure(heap[ret.ref])
                = <<Flatten(Flipped(Structure(heap[call.this]), call.keyArgs.reverse))>>
           /\ heap[ret.ref].flatteningMode = heap[call.this].flatteningMode
           /\ heap[ret.ref].flattenRootLabel = ""

C10_Witness ==
    /\ call.op = "singleLevelGrouping"
    /\ call.keyArgs.reverse
    /\ heap[call.this].depth = 2
    /\ heap[call.this].flattenRootLabel = "All"
    /\ heap[call.this].levels[1].dimensions[1].name
          # heap[call.this].levels[2].dimensions[1].name
    /\ ret.ref # call.this

====
